---- MODULE Spec2Model ----
(***************************************************************************)
(* Graupner HoTT telemetry daemon (src/drivers/hott/hott_telemetry):       *)
(* the session loop of hott_telemetry_thread_main, the request listener    *)
(* recv_req_id and the frame transmitter send_data, over a half-duplex     *)
(* serial link whose receive side is the queue rx.                         *)
(*                                                                         *)
(* One step of the daemon is one link operation (poll, read, write)        *)
(* together with the straight-line code that follows it up to the next     *)
(* link operation; the receiver and the stop command interleave between    *)
(* such steps.                                                             *)
(***************************************************************************)
EXTENDS Integers, Sequences, FiniteSets

\* ------------------------------------------------------------------ bounds

\* Longest frame a response builder reports (logical size, in bytes).
MaxSize == 3
\* Most receiver bytes waiting unread in the UART receive buffer.
MaxRx == 2
\* Most daemon tasks the start command spawns.
MaxTasks == 2

\* --------------------------------------------------------- protocol constants

\* messages.h (not among the sources): the binary-mode marker and sensor ids.
BINARY_MODE_REQUEST_ID == 161
EAM_SENSOR_ID == 142
GPS_SENSOR_ID == 138

\* The value of recv_req_id's local `mode` before the read at line 89.
NoByte == -1

\* Bytes the receiver may put on the link: the marker, both supported ids,
\* and one byte (127) that is neither the marker nor a supported id.
RxBytes == {BINARY_MODE_REQUEST_ID, EAM_SENSOR_ID, GPS_SENSOR_ID, 127}

\* Bytes a response builder may put in a frame.
FrameBytes == {1, 255}

\* Frames a response builder may produce: 1..MaxSize bytes.
Frames == UNION {[1..n -> FrameBytes] : n \in 1..MaxSize}

VARIABLES
    thread_should_exit,  \* line 60
    thread_running,      \* line 61
    uartOpen,            \* the descriptor returned by open_uart is open
    echo,                \* link wiring: written bytes loop back onto rx
    rx,                  \* bytes waiting in the UART receive buffer
    pc,                  \* position of the daemon task
    connected,           \* line 202
    id,                  \* line 201
    mode,                \* line 85
    buffer,              \* line 199, the first `size` bytes
    size,                \* line 200
    i,                   \* send_data's loop index, line 145
    checksum,            \* send_data's running sum, line 144
    lret,                \* result of the last completed recv_req_id call
    sret,                \* return value of this cycle's send_data
    lread,               \* bytes this cycle's recv_req_id took from rx
    eread,               \* number of bytes this cycle's echo read took from rx
    drained,             \* this cycle's send_data issued its echo read
    tx,                  \* bytes passed to write() in this cycle, in order
    wfail,               \* some write() of this cycle failed
    built,               \* builder invoked in this cycle
    out,                 \* warnx lines of this cycle
    lastNotice,          \* most recent "OK" / "syncing" line
    conn0,               \* connected when this cycle began
    frame,               \* what this cycle's builder put in the buffer
    ev,                  \* link events of this cycle's send_data, in order
    prev,                \* until the listener returns: the previous cycle's
                         \* builder, frame and written bytes, if it sent a frame
    ptx,                 \* the previous cycle's written bytes, when this cycle's
                         \* builder and frame are the same as that cycle's
    rxo,                 \* for each byte of rx, where it comes from: "m", the
                         \* first byte of a receiver request; "i", its second
                         \* byte; "e", the echo of a byte the daemon wrote
    rnext,               \* which byte of a request the receiver sends next
    lorig,               \* for each byte of lread, where it came from
    eorig,               \* where the bytes this cycle's echo read took came from
    task,                \* for each daemon task the start command spawned, its
                         \* place in hott_telemetry_thread_main and its -d argument
    cmdout               \* what the last start or status command printed

vars == <<thread_should_exit, thread_running, uartOpen, echo, rx, pc,
          connected, id, mode, buffer, size, i, checksum, lret, sret, lread,
          eread, drained, tx, wfail, built, out, lastNotice, conn0, frame, ev,
          prev, ptx, rxo, rnext, lorig, eorig, task, cmdout>>

\* The state of one session: everything but the two static flags, the tasks
\* and the command output.
sessionVars == <<uartOpen, echo, rx, pc, connected, id, mode, buffer, size, i,
                 checksum, lret, sret, lread, eread, drained, tx, wfail, built,
                 out, lastNotice, conn0, frame, ev, prev, ptx, rxo, rnext,
                 lorig, eorig>>

Tasks == 1..MaxTasks

\* The -d argument of a start command: absent, given with a device, or given
\* last with no device after it.
DeviceArgs == {"absent", "device", "missing"}

NoTask == [at |-> "none", arg |-> "absent"]

\* ------------------------------------------------------------------ helpers

Min(a, b) == IF a < b THEN a ELSE b

\* read(uart, buf, n) on a non-empty receive buffer: takes what is there, at
\* most n bytes.
UartRead(q, n) ==
    [data |-> SubSeq(q, 1, Min(n, Len(q))),
     rest |-> SubSeq(q, Min(n, Len(q)) + 1, Len(q))]

\* line 89: sizeof(mode).
ModeReadSizeWide == 1 + 1
ModeReadSize == 1

\* line 97: sizeof(*id).
IdReadSize == 1

\* line 92: the mode byte is the binary-mode marker.
ModeIsBinaryOrText(m) == m \in {BINARY_MODE_REQUEST_ID, 127}
ModeHasHighBit(m) == m >= 128
ModeIsBinary(m) == m = BINARY_MODE_REQUEST_ID

\* line 151: checksum += buffer[i], on a uint16_t.
ChecksumAdd(c, b) == (c + b) % 65536

\* line 148: checksum & 0xff.
ChecksumByte7Bit(c) == c % 128
ChecksumByte(c) == c % 256

\* lines 211-222: the builder the switch selects, "none" for the default arm.
DispatchDefaultEam(sensor) ==
    IF sensor = GPS_SENSOR_ID THEN "gps" ELSE "eam"
DispatchSwapped(sensor) ==
    IF sensor = EAM_SENSOR_ID THEN "gps"
    ELSE IF sensor = GPS_SENSOR_ID THEN "eam"
    ELSE "none"
Dispatch(sensor) ==
    IF sensor = EAM_SENSOR_ID THEN "eam"
    ELSE IF sensor = GPS_SENSOR_ID THEN "gps"
    ELSE "none"

\* line 203: the loop condition.
LoopConditionIgnoresStop == TRUE
LoopCondition == ~thread_should_exit

\* line 226: connectivity after a failed listen.
ConnectedKeptOnFail == connected
ConnectedAfterFail == FALSE

\* line 227: the notice of a failed listen.
NoticeOnFirstFail == IF connected THEN <<"syncing">> ELSE <<>>
NoticeOnFail == <<"syncing">>

\* lines 206-209: the notice of a successful listen.
NoticeOnEverySuccess == <<"OK">>
NoticeOnSuccess == IF ~connected THEN <<"OK">> ELSE <<>>

\* line 165.
SendDataReturn == "OK"

\* line 145: the for loop goes on while k < size, then the echo read follows;
\* the stop flag is not looked at.
SendNextPcStopAware(k) ==
    IF thread_should_exit THEN "exiting"
    ELSE IF k < size THEN "send_write" ELSE "send_echo"
SendNextPcOneShort(k) == IF k < size - 1 THEN "send_write" ELSE "send_echo"
SendNextPc(k) == IF k < size THEN "send_write" ELSE "send_echo"

\* No previous transmission.
NoPrev == [built |-> "none", frame |-> <<>>, tx |-> <<>>]

\* line 144: uint16_t checksum = 0, at every call.
ChecksumSeededFromBuffer == IF buffer = <<>> THEN 0 ELSE buffer[Len(buffer)]
ChecksumInit == 0

\* A link event of send_data: a delay, a one-byte write of buffer position
\* pos (0-based, as in the code), or the echo read.
Event(op, pos) == [op |-> op, pos |-> pos]

\* -------------------------------------------------------------------- init

\* The daemon task at line 203, first evaluation: lines 173, 191, 199-202
\* have run.
Init ==
    /\ thread_should_exit = FALSE
    /\ thread_running = TRUE
    /\ uartOpen = TRUE
    /\ echo \in BOOLEAN
    /\ rx = <<>>
    /\ pc = "while"
    /\ connected = TRUE
    /\ id = 0
    /\ mode = NoByte
    /\ buffer = <<>>
    /\ size = 0
    /\ i = 0
    /\ checksum = 0
    /\ lret = "none"
    /\ sret = "none"
    /\ lread = <<>>
    /\ eread = 0
    /\ drained = FALSE
    /\ tx = <<>>
    /\ wfail = FALSE
    /\ built = "none"
    /\ out = <<>>
    /\ lastNotice = "none"
    /\ conn0 = TRUE
    /\ frame = <<>>
    /\ ev = <<>>
    /\ prev = NoPrev
    /\ ptx = <<>>
    /\ rxo = <<>>
    /\ rnext = "m"
    /\ lorig = <<>>
    /\ eorig = <<>>
    /\ task = [t \in Tasks |-> NoTask]
    /\ cmdout = ""

\* ------------------------------------------------------------ daemon steps

\* line 203: while (!thread_should_exit); a new cycle begins, or the loop ends.
WhileCheck ==
    /\ pc = "while"
    /\ IF LoopCondition
       THEN /\ pc' = "recv_poll"
            /\ mode' = NoByte
            /\ lread' = <<>>
            /\ eread' = 0
            /\ drained' = FALSE
            /\ tx' = <<>>
            /\ wfail' = FALSE
            /\ built' = "none"
            /\ out' = <<>>
            /\ sret' = "none"
            /\ conn0' = connected
            /\ frame' = <<>>
            /\ ev' = <<>>
            /\ prev' = IF built # "none" /\ drained
                       THEN [built |-> built, frame |-> frame, tx |-> tx]
                       ELSE NoPrev
            /\ ptx' = <<>>
            /\ lorig' = <<>>
            /\ eorig' = <<>>
       ELSE /\ pc' = "exiting"
            /\ UNCHANGED <<mode, lread, eread, drained, tx, wfail, built,
                           out, sret, conn0, frame, ev, prev, ptx, lorig,
                           eorig>>
    /\ UNCHANGED <<thread_should_exit, thread_running, uartOpen, echo, rx,
                   connected, id, buffer, size, i, checksum, lret, lastNotice>>
    /\ UNCHANGED <<rxo, rnext>>
    /\ UNCHANGED <<task, cmdout>>

\* lines 87, 98-100, then 225-228: poll() finds nothing to read in 1000 ms.
RecvTimeout ==
    /\ pc = "recv_poll"
    /\ rx = <<>>
    /\ lret' = "timeout"
    /\ connected' = ConnectedAfterFail
    /\ out' = out \o <<"UART timeout on TX/RX port">> \o NoticeOnFail
    /\ lastNotice' = "syncing"
    /\ pc' = "while"
    /\ UNCHANGED <<thread_should_exit, thread_running, uartOpen, echo, rx, id,
                   mode, buffer, size, i, checksum, sret, lread, eread,
                   drained, tx, wfail, built, conn0, frame, ev, ptx>>
    /\ prev' = NoPrev
    /\ UNCHANGED <<rxo, rnext, lorig, eorig>>
    /\ UNCHANGED <<task, cmdout>>

\* lines 87-94: poll() reports a readable byte, the mode byte is read and
\* compared; on a mismatch recv_req_id returns ERROR and lines 225-228 run.
RecvMode ==
    /\ pc = "recv_poll"
    /\ rx # <<>>
    /\ LET r == UartRead(rx, ModeReadSize)
           m == r.data[1]
       IN /\ rx' = r.rest
          /\ mode' = m
          /\ lread' = lread \o r.data
          /\ IF ModeIsBinary(m)
             THEN /\ pc' = "recv_id"
                  /\ UNCHANGED <<lret, connected, out, lastNotice, prev>>
             ELSE /\ prev' = NoPrev
                  /\ lret' = "mismatch"
                  /\ connected' = ConnectedAfterFail
                  /\ out' = out \o NoticeOnFail
                  /\ lastNotice' = "syncing"
                  /\ pc' = "while"
    /\ UNCHANGED <<thread_should_exit, thread_running, uartOpen, echo, id,
                   buffer, size, i, checksum, sret, eread, drained, tx, wfail,
                   built, conn0, frame, ev, ptx>>
    /\ rxo' = UartRead(rxo, ModeReadSize).rest
    /\ lorig' = lorig \o UartRead(rxo, ModeReadSize).data
    /\ UNCHANGED <<rnext, eorig>>
    /\ UNCHANGED <<task, cmdout>>

\* line 97 (a blocking read of the sensor id), line 103, then lines 205-222:
\* the reconnection notice, the switch, the builder, and the entry of
\* send_data (lines 142-144) or `continue`.
RecvId ==
    /\ pc = "recv_id"
    /\ rx # <<>>
    /\ LET r == UartRead(rx, IdReadSize)
           sensor == r.data[1]
       IN /\ rx' = r.rest
          /\ id' = sensor
          /\ lread' = lread \o r.data
          /\ lret' = "ok"
          /\ connected' = TRUE
          /\ out' = out \o NoticeOnSuccess
          /\ lastNotice' = IF NoticeOnSuccess # <<>> THEN "OK" ELSE lastNotice
          /\ IF Dispatch(sensor) # "none"
             THEN /\ \E f \in Frames :
                        /\ buffer' = f
                        /\ size' = Len(f)
                        /\ frame' = f
                        /\ ptx' = IF prev.built = Dispatch(sensor)
                                      /\ prev.frame = f
                                   THEN prev.tx ELSE <<>>
                  /\ built' = Dispatch(sensor)
                  /\ ev' = <<Event("settle", 0)>>
                  /\ i' = 0
                  /\ checksum' = ChecksumInit
                  /\ pc' = "send_write"
             ELSE /\ pc' = "while"
                  /\ UNCHANGED <<buffer, size, built, i, checksum, frame, ev,
                                 ptx>>
          /\ prev' = NoPrev
    /\ UNCHANGED <<thread_should_exit, thread_running, uartOpen, echo, mode,
                   sret, eread, drained, tx, wfail, conn0>>
    /\ rxo' = UartRead(rxo, IdReadSize).rest
    /\ lorig' = lorig \o UartRead(rxo, IdReadSize).data
    /\ UNCHANGED <<rnext, eorig>>
    /\ UNCHANGED <<task, cmdout>>

\* lines 145-158: one iteration of the for loop; the write may fail, and its
\* result is not looked at.
SendWrite ==
    /\ pc = "send_write"
    /\ i < size
    /\ LET last == (i = size - 1)
           b == IF last THEN ChecksumByte(checksum) ELSE buffer[i + 1]
       IN /\ buffer' = [buffer EXCEPT ![i + 1] = b]
          /\ checksum' = IF last THEN checksum ELSE ChecksumAdd(checksum, b)
          /\ \E ok \in BOOLEAN :
                /\ tx' = Append(tx, b)
                /\ wfail' = (wfail \/ ~ok)
                /\ rx' = IF ok /\ echo THEN Append(rx, b) ELSE rx
                /\ rxo' = IF ok /\ echo THEN Append(rxo, "e") ELSE rxo
          /\ ev' = ev \o <<Event("write", i), Event("pace", i)>>
          /\ i' = i + 1
          /\ pc' = SendNextPc(i + 1)
    /\ UNCHANGED <<thread_should_exit, thread_running, uartOpen, echo,
                   connected, id, mode, size, lret, sret, lread, eread,
                   drained, built, out, lastNotice, conn0, frame, prev, ptx>>
    /\ UNCHANGED <<rnext, lorig, eorig>>
    /\ UNCHANGED <<task, cmdout>>

\* lines 162-165: the echo read (blocking until a byte is there) and return.
SendEcho ==
    /\ pc = "send_echo"
    /\ rx # <<>>
    /\ LET r == UartRead(rx, size)
       IN /\ rx' = r.rest
          /\ eread' = Len(r.data)
    /\ drained' = TRUE
    /\ ev' = Append(ev, Event("echo_read", size))
    /\ sret' = SendDataReturn
    /\ i' = 0
    /\ checksum' = 0
    /\ pc' = "while"
    /\ UNCHANGED <<thread_should_exit, thread_running, uartOpen, echo,
                   connected, id, mode, buffer, size, lret, lread, tx, wfail,
                   built, out, lastNotice, conn0, frame, prev, ptx>>
    /\ rxo' = UartRead(rxo, size).rest
    /\ eorig' = UartRead(rxo, size).data
    /\ UNCHANGED <<rnext, lorig>>
    /\ UNCHANGED <<task, cmdout>>

\* lines 231-237.
Exiting ==
    /\ pc = "exiting"
    /\ out' = Append(out, "exiting")
    /\ uartOpen' = FALSE
    /\ thread_running' = FALSE
    /\ pc' = "done"
    /\ UNCHANGED <<thread_should_exit, echo, rx, connected, id, mode, buffer,
                   size, i, checksum, lret, sret, lread, eread, drained, tx, wfail,
                   built, lastNotice, conn0, frame, ev, prev, ptx>>
    /\ UNCHANGED <<rxo, rnext, lorig, eorig>>
    /\ UNCHANGED <<task, cmdout>>

\* ------------------------------------------------------------- environment

\* The receiver puts one byte on the link.
ReceiverSend ==
    /\ Len(rx) < MaxRx
    /\ \E b \in RxBytes : rx' = Append(rx, b)
    /\ rxo' = Append(rxo, rnext)
    /\ rnext' = IF rnext = "m" THEN "i" ELSE "m"
    /\ UNCHANGED <<thread_should_exit, thread_running, uartOpen, echo, pc,
                   connected, id, mode, buffer, size, i, checksum, lret, sret,
                   lread, eread, drained, tx, wfail, built, out, lastNotice,
                   conn0, frame, ev, prev, ptx>>
    /\ UNCHANGED <<lorig, eorig>>
    /\ UNCHANGED <<task, cmdout>>

\* lines 267-270: hott_telemetry stop.
StopCommand ==
    /\ thread_should_exit' = TRUE
    /\ UNCHANGED <<thread_running, uartOpen, echo, rx, pc, connected, id,
                   mode, buffer, size, i, checksum, lret, sret, lread, eread,
                   drained, tx, wfail, built, out, lastNotice, conn0, frame,
                   ev, prev, ptx>>
    /\ UNCHANGED <<rxo, rnext, lorig, eorig>>
    /\ UNCHANGED <<task, cmdout>>

Next ==
    \/ WhileCheck
    \/ RecvTimeout
    \/ RecvMode
    \/ RecvId
    \/ SendWrite
    \/ SendEcho
    \/ Exiting
    \/ ReceiverSend
    \/ StopCommand

Spec == Init /\ [][Next]_vars

\* The steps of the daemon task.
DaemonNext ==
    \/ WhileCheck
    \/ RecvTimeout
    \/ RecvMode
    \/ RecvId
    \/ SendWrite
    \/ SendEcho
    \/ Exiting

\* The daemon task is scheduled whenever it can run (it blocks only in
\* poll() and read()), and the receiver keeps sending, so that every blocking
\* read of the link returns.
LiveSpec == Init /\ [][Next]_vars /\ WF_vars(DaemonNext) /\ WF_vars(ReceiverSend)

\* The link loops every written byte back onto the receive side: the wiring
\* echoes and no write fails.
EchoInit == Init /\ echo
EchoNext ==
    \/ WhileCheck
    \/ RecvTimeout
    \/ RecvMode
    \/ RecvId
    \/ SendWrite /\ ~wfail'
    \/ SendEcho
    \/ Exiting
    \/ ReceiverSend
    \/ StopCommand
SpecEcho == EchoInit /\ [][EchoNext]_vars

\* ------------------------------------------------- commands and daemon tasks

\* The start, stop and status commands and the tasks start spawns, each task
\* followed from its entry to its end; one cycle of its loop is one step here,
\* the steps inside a cycle are those of Spec.

Alive(t) == task[t].at \notin {"none", "dead"}

\* Lines 60-61: both flags start false; no task exists.
LifeInit ==
    /\ thread_should_exit = FALSE
    /\ thread_running = FALSE
    /\ task = [t \in Tasks |-> NoTask]
    /\ cmdout = ""
    /\ uartOpen = FALSE
    /\ echo = FALSE
    /\ rx = <<>>
    /\ pc = "while"
    /\ connected = TRUE
    /\ id = 0
    /\ mode = NoByte
    /\ buffer = <<>>
    /\ size = 0
    /\ i = 0
    /\ checksum = 0
    /\ lret = "none"
    /\ sret = "none"
    /\ lread = <<>>
    /\ eread = 0
    /\ drained = FALSE
    /\ tx = <<>>
    /\ wfail = FALSE
    /\ built = "none"
    /\ out = <<>>
    /\ lastNotice = "none"
    /\ conn0 = TRUE
    /\ frame = <<>>
    /\ ev = <<>>
    /\ prev = NoPrev
    /\ ptx = <<>>
    /\ rxo = <<>>
    /\ rnext = "m"
    /\ lorig = <<>>
    /\ eorig = <<>>

\* lines 250-265: start. Refused when the status flag is set; otherwise the
\* exit flag is cleared and a task is spawned with the command's arguments.
StartCommand ==
    /\ IF thread_running
       THEN /\ cmdout' = "deamon already running"
            /\ UNCHANGED <<thread_should_exit, task>>
       ELSE /\ \E t \in Tasks :
                /\ task[t].at = "none"
                /\ \A u \in Tasks : u < t => task[u].at # "none"
                /\ \E d \in DeviceArgs :
                       task' = [task EXCEPT ![t] = [at |-> "spawned", arg |-> d]]
            /\ thread_should_exit' = FALSE
            /\ UNCHANGED cmdout
    /\ UNCHANGED <<thread_running, sessionVars>>

\* lines 272-281: status.
StatusCommand ==
    /\ cmdout' = IF thread_running THEN "daemon is running"
                                   ELSE "daemon not started"
    /\ UNCHANGED <<thread_should_exit, thread_running, task, sessionVars>>

\* lines 171-173: the task begins and sets the status flag.
TaskStart(t) ==
    /\ task[t].at = "spawned"
    /\ thread_running' = TRUE
    /\ task' = [task EXCEPT ![t].at = "args"]
    /\ UNCHANGED <<thread_should_exit, cmdout, sessionVars>>

\* lines 178-188: the arguments. A -d with nothing after it clears the status
\* flag and ends the task in errx.
TaskArgs(t) ==
    /\ task[t].at = "args"
    /\ IF task[t].arg = "missing"
       THEN /\ thread_running' = FALSE
            /\ task' = [task EXCEPT ![t] = [at |-> "dead", arg |-> "absent"]]
       ELSE /\ task' = [task EXCEPT ![t] = [at |-> "open", arg |-> "absent"]]
            /\ UNCHANGED thread_running
    /\ UNCHANGED <<thread_should_exit, cmdout, sessionVars>>

\* lines 191-195: open_uart. When it fails errx ends the task at line 193;
\* the assignment at line 194 comes after it and is never run.
TaskOpen(t) ==
    /\ task[t].at = "open"
    /\ \E ok \in BOOLEAN :
           task' = [task EXCEPT ![t].at = IF ok THEN "loop" ELSE "dead"]
    /\ UNCHANGED <<thread_should_exit, thread_running, cmdout, sessionVars>>

\* line 203: the loop condition.
TaskLoopCheck(t) ==
    /\ task[t].at = "loop"
    /\ task' = [task EXCEPT ![t].at = IF LoopCondition THEN "cycle"
                                                       ELSE "exiting"]
    /\ UNCHANGED <<thread_should_exit, thread_running, cmdout, sessionVars>>

\* lines 204-228: one cycle, listening on the link and answering on it.
TaskCycle(t) ==
    /\ task[t].at = "cycle"
    /\ task' = [task EXCEPT ![t].at = "loop"]
    /\ UNCHANGED <<thread_should_exit, thread_running, cmdout, sessionVars>>

\* lines 231-237: the link is closed and the status flag cleared.
TaskExit(t) ==
    /\ task[t].at = "exiting"
    /\ thread_running' = FALSE
    /\ task' = [task EXCEPT ![t].at = "dead"]
    /\ UNCHANGED <<thread_should_exit, cmdout, sessionVars>>

LifeNext ==
    \/ StartCommand
    \/ StopCommand
    \/ StatusCommand
    \/ \E t \in Tasks : TaskStart(t)
    \/ \E t \in Tasks : TaskArgs(t)
    \/ \E t \in Tasks : TaskOpen(t)
    \/ \E t \in Tasks : TaskLoopCheck(t)
    \/ \E t \in Tasks : TaskCycle(t)
    \/ \E t \in Tasks : TaskExit(t)

SpecLife == LifeInit /\ [][LifeNext]_vars

\* ------------------------------------------------------- observation terms

RECURSIVE SumSeq(_)
\* The exact (unbounded) sum of a sequence of bytes.
SumSeq(s) == IF s = <<>> THEN 0 ELSE s[1] + SumSeq(Tail(s))

\* This cycle's warnx lines contain the line n.
HasNotice(n) == \E k \in 1..Len(out) : out[k] = n

\* The step is one of the daemon task (the environment never moves pc).
DaemonStep == pc' # pc

\* This cycle's recv_req_id returned OK with an id the switch does not serve.
UnsupportedCycle ==
    /\ Len(lread) = 2
    /\ lread[1] = BINARY_MODE_REQUEST_ID
    /\ id \notin {EAM_SENSOR_ID, GPS_SENSOR_ID}

\* -------------------------------------------------------------------- C1

\* C1: once send_data has issued all `size` writes of a frame of size >= 1,
\* the last byte written is the exact sum of the bytes written before it,
\* modulo 256 (0 for a frame of one byte); the 16-bit running sum of the code
\* agrees with the unbounded sum.
C1_ChecksumIsSumMod256 ==
    (size >= 1 /\ Len(tx) = size) =>
        tx[size] = SumSeq(SubSeq(tx, 1, size - 1)) % 256

\* A three-byte frame whose payload sum exceeds one byte has been written.
C1_Witness ==
    /\ size = 3
    /\ Len(tx) = 3
    /\ tx[1] + tx[2] > 255

\* -------------------------------------------------------------------- C2

\* C2: a builder has run or a byte has been written in this cycle only if
\* this cycle's listener read the binary-mode marker and returned OK; in a
\* cycle whose listener timed out or read another mode byte, no builder has
\* run and no byte has been written.
C2_DispatchOnlyOnBinaryMode ==
    /\ (built # "none" \/ tx # <<>>) =>
          (mode = BINARY_MODE_REQUEST_ID /\ lret = "ok" /\ Len(lread) = 2)
    /\ (pc = "while" /\ lret \in {"timeout", "mismatch"}) =>
          (built = "none" /\ tx = <<>> /\ ~drained)

\* A cycle served the GPS poll and wrote its whole frame.
C2_Witness ==
    /\ built = "gps"
    /\ mode = BINARY_MODE_REQUEST_ID
    /\ size >= 1
    /\ Len(tx) = size

\* -------------------------------------------------------------------- C3

\* C3: when the first byte recv_req_id took from the link is the binary-mode
\* marker and the call has returned, it returned OK, took exactly two bytes,
\* and id is the second of them.
C3_ValidPairReturnsId ==
    (pc # "recv_id" /\ Len(lread) >= 1 /\ lread[1] = BINARY_MODE_REQUEST_ID) =>
        /\ lret = "ok"
        /\ Len(lread) = 2
        /\ id = lread[2]

\* A valid pair was served while a further receiver byte stayed unread.
C3_Witness ==
    /\ pc = "while"
    /\ lret = "ok"
    /\ lread = <<BINARY_MODE_REQUEST_ID, 127>>
    /\ id = 127
    /\ rx # <<>>

\* -------------------------------------------------------------------- C4

\* C4: a listener step that finds a first byte other than the binary-mode
\* marker returns the mismatch error, removes exactly that one byte from the
\* receive stream, and leaves id as it was.
C4_MismatchConsumesOneByte ==
    [][(pc = "recv_poll" /\ DaemonStep /\ rx # <<>>
            /\ Head(rx) # BINARY_MODE_REQUEST_ID) =>
          (/\ lret' = "mismatch"
           /\ rx' = Tail(rx)
           /\ lread' = <<Head(rx)>>
           /\ id' = id
           /\ pc' = "while")]_vars

\* A mismatched call returned with the byte after the bad mode byte unread.
C4_Witness ==
    /\ pc = "while"
    /\ lret = "mismatch"
    /\ Len(lread) = 1
    /\ lread[1] # BINARY_MODE_REQUEST_ID
    /\ Len(rx) >= 1

\* -------------------------------------------------------------------- C5

\* C5: after send_data has returned for a frame of `size` bytes, its echo
\* read has removed exactly `size` bytes from the receive stream.
C5_EchoReadDrainsSize ==
    drained => eread = size

\* -------------------------------------------------------------------- C6

\* C6: the session is connected exactly when no listener call has completed
\* yet or the last completed one succeeded; after a timeout and after a
\* mismatch the loop is in the same place, disconnected, with a "syncing"
\* line as the cycle's last notice and nothing built or written.
C6_ConnectedIffLastListenOk ==
    /\ connected <=> lret \in {"none", "ok"}
    /\ (pc = "while" /\ lret \in {"timeout", "mismatch"}) =>
          (/\ ~connected
           /\ out # <<>>
           /\ out[Len(out)] = "syncing"
           /\ built = "none")

\* A mismatch in a connected session left it disconnected.
C6_Witness ==
    /\ pc = "while"
    /\ lret = "mismatch"
    /\ conn0
    /\ ~connected

\* -------------------------------------------------------------------- C7

\* A step that adds the line n to the cycle's warnx lines.
Emits(n) == Len(out') > Len(out) /\ out'[Len(out')] = n

\* C7: a step emits "OK" exactly when it completes a successful listener
\* call while the session is disconnected; the notice before an "OK" is
\* always a "syncing" (never another "OK", never nothing).
C7_ReconnectNoticeOnlyAfterSyncing ==
    [][/\ Emits("OK") <=>
            (pc = "recv_id" /\ DaemonStep /\ lret' = "ok" /\ ~connected)
       /\ Emits("OK") => (lastNotice = "syncing" /\ lastNotice' = "OK")
       /\ (pc = "recv_id" /\ DaemonStep /\ connected) => out' = out]_vars

\* A successful listen in a disconnected session emitted the notice.
C7_Witness ==
    /\ HasNotice("OK")
    /\ ~conn0
    /\ connected
    /\ lret = "ok"

\* -------------------------------------------------------------------- C8

\* C8 as stated: after a valid poll for an unsupported id nothing is written,
\* no echo read is made, the loop is back at its head, and connectivity is
\* what it was when the cycle began.
C8_UnsupportedLeavesConnectivity ==
    UnsupportedCycle =>
        /\ tx = <<>>
        /\ ~drained
        /\ built = "none"
        /\ pc \in {"while", "exiting", "done"}
        /\ connected = conn0

\* C8 amended: after a valid poll for an unsupported id nothing is written,
\* no echo read is made, the loop is back at its head, and the session is
\* connected: unchanged, with no notice, if the cycle began connected;
\* reconnected, with an "OK" notice, if it began disconnected.
C8_UnsupportedSkipsTransmit ==
    UnsupportedCycle =>
        /\ tx = <<>>
        /\ ~drained
        /\ built = "none"
        /\ pc \in {"while", "exiting", "done"}
        /\ connected
        /\ HasNotice("OK") <=> ~conn0

\* An unsupported id was polled while the session was disconnected.
C8_Witness ==
    /\ UnsupportedCycle
    /\ pc = "while"
    /\ ~conn0

\* -------------------------------------------------------------------- C9

\* C9: when a write of this cycle's send_data failed and send_data has
\* returned, it returned an error, and the session is still connected.
C9_WriteFailureIsReported ==
    (wfail /\ sret # "none") => (sret = "ERROR" /\ connected)

\* -------------------------------------------------------------------- C10

\* C10: the loop is left only from its head and only with the stop flag set,
\* and at that moment a send started in the last cycle has issued all `size`
\* writes and its echo read.
C10_ExitOnlyBetweenCycles ==
    [][(pc' = "exiting" /\ pc # "exiting") =>
          (/\ pc = "while"
           /\ thread_should_exit
           /\ built # "none" => (Len(tx) = size /\ drained))]_vars

\* The loop ended right after a cycle that transmitted a frame.
C10_Witness ==
    /\ pc = "done"
    /\ thread_should_exit
    /\ built # "none"
    /\ Len(tx) = size
    /\ drained

\* -------------------------------------------------------------------- C11

\* C11: a cycle makes one listener call (at most two bytes read) and at most
\* one transmission (at most `size` writes); whatever has been built or
\* written in a cycle follows that cycle's successful listener call, was
\* built by the builder of the id that call returned, and the bytes written
\* before the checksum are those of the frame built in this cycle.
C11_FrameAnswersThisCyclesRequest ==
    /\ Len(lread) <= 2
    /\ tx # <<>> => built # "none"
    /\ built # "none" =>
          /\ lret = "ok"
          /\ Len(lread) = 2
          /\ id = lread[2]
          /\ \/ id = EAM_SENSOR_ID /\ built = "eam"
             \/ id = GPS_SENSOR_ID /\ built = "gps"
          /\ Len(frame) = size
          /\ Len(tx) <= size
          /\ \A k \in 1..Len(tx) : k < size => tx[k] = frame[k]

\* An EAM poll was answered by the EAM builder's frame, sent in full.
C11_Witness ==
    /\ id = EAM_SENSOR_ID
    /\ built = "eam"
    /\ size >= 2
    /\ Len(tx) = size
    /\ drained

\* -------------------------------------------------------------------- C13

\* C13 as stated: while the loop runs, a daemon step emits a notice only if
\* it changes the connectivity state.
C13_NoticesOnlyOnTransitions ==
    [][(DaemonStep /\ pc # "exiting" /\ Len(out') > Len(out)) =>
          connected' # connected]_vars

\* C13 amended: "OK" is emitted only by a successful listen in a disconnected
\* session; every failed listen emits "syncing", whether the session was
\* connected or already disconnected, and a timeout emits the listener's
\* "UART timeout on TX/RX port" before it; no other step of a cycle (the
\* dispatch of an unsupported id, a write, the echo read) emits a notice.
C13_NoticesPerListen ==
    [][(DaemonStep /\ pc # "exiting") =>
          /\ (pc = "recv_poll" /\ pc' = "while" /\ rx = <<>>) =>
                out' = out \o <<"UART timeout on TX/RX port", "syncing">>
          /\ (pc = "recv_poll" /\ pc' = "while" /\ rx # <<>>) =>
                out' = Append(out, "syncing")
          /\ (pc = "recv_poll" /\ pc' = "recv_id") => out' = out
          /\ pc = "recv_id" =>
                out' = IF connected THEN out ELSE Append(out, "OK")
          /\ pc \in {"send_write", "send_echo"} => out' = out
          /\ pc = "while" => out' \in {out, <<>>}]_vars

\* A listen failed in a session that was already disconnected, and said so.
C13_Witness ==
    /\ pc = "while"
    /\ ~conn0
    /\ ~connected
    /\ lret = "mismatch"
    /\ out = <<"syncing">>

\* -------------------------------------------------------------------- C15

RECURSIVE WriteEvents(_)
\* The events of the first k iterations of send_data's loop.
WriteEvents(k) ==
    IF k = 0 THEN <<>>
    ELSE WriteEvents(k - 1) \o <<Event("write", k - 1), Event("pace", k - 1)>>

\* C15: the link events of a send are the settle delay, then per position in
\* increasing order one write and one pacing delay, then (once all `size`
\* writes are done) one echo read; the bytes written before the last are the
\* builder's, and the buffer differs from the builder's frame at most in its
\* last position.
C15_SendEventOrder ==
    built # "none" =>
        /\ ev = <<Event("settle", 0)>> \o WriteEvents(Len(tx))
                   \o (IF drained THEN <<Event("echo_read", size)>> ELSE <<>>)
        /\ Len(tx) <= size
        /\ drained => Len(tx) = size
        /\ pc = "send_write" => Len(tx) = i
        /\ pc = "send_echo" => Len(tx) = size
        /\ \A k \in 1..Len(tx) : k < size => tx[k] = frame[k]
        /\ Len(buffer) = size
        /\ \A k \in 1..size : k < size => buffer[k] = frame[k]

\* A three-byte frame went out in full and its last position was overwritten.
C15_Witness ==
    /\ drained
    /\ size = 3
    /\ Len(ev) = 8
    /\ buffer[3] # frame[3]

\* -------------------------------------------------------------------- C14

\* C14: when a cycle and the cycle right before it both sent a frame for the
\* same sensor and the builder put the same bytes in the buffer both times,
\* the bytes written in the two cycles are the same, whatever checksum the
\* first send left in the buffer's last position.
C14_RepeatedFrameIsIdentical ==
    (ptx # <<>> /\ Len(tx) = size) => tx = ptx

\* The same frame went out twice in a row, and the checksum left in the last
\* position by the first send differs from the byte the builder puts there.
C14_Witness ==
    /\ ptx # <<>>
    /\ drained
    /\ size >= 2
    /\ Len(tx) = size
    /\ tx[size] # frame[size]

\* -------------------------------------------------------------------- C16

\* C16: with the stop flag set, the loop head starts no new cycle (so at most
\* the listener call already pending is still made), the loop is left only
\* with the cycle's send complete, and the task eventually ends with the link
\* closed and the running-status flag cleared.
C16_StopLeadsToExit ==
    /\ [][/\ (thread_should_exit /\ pc = "while" /\ DaemonStep) =>
                pc' = "exiting"
          /\ (pc' = "exiting" /\ pc # "exiting") =>
                (built # "none" => (Len(tx) = size /\ drained))]_vars
    /\ thread_should_exit ~> (pc = "done" /\ ~uartOpen /\ ~thread_running)

\* The task ended after a last listener call that timed out.
C16_Witness ==
    /\ pc = "done"
    /\ thread_should_exit
    /\ ~uartOpen
    /\ ~thread_running
    /\ lret = "timeout"

\* -------------------------------------------------------------------- C17

\* C17: a daemon inside recv_req_id can always take its next step without
\* anything more from the receiver: each of its waits ends by itself.
C17_ListenerWaitsAreBounded ==
    pc \in {"recv_poll", "recv_id"} =>
        ENABLED (RecvTimeout \/ RecvMode \/ RecvId)

\* -------------------------------------------------------------------- C18

\* C18: on a link that echoes every written byte, the bytes the echo read of
\* a send takes are `size` echoes, none of them a byte the receiver sent, and
\* the listener never reads an echo.
C18_EchoReadTakesExactlyTheEchoes ==
    /\ \A k \in 1..Len(eorig) : eorig[k] = "e"
    /\ drained => Len(eorig) = size
    /\ \A k \in 1..Len(lorig) : lorig[k] # "e"

\* -------------------------------------------------------------------- C19

\* C19: with a receiver that sends whole (mode, id) requests, the byte
\* recv_req_id compares with the binary-mode marker is the first byte of a
\* request.
C19_ModeByteIsFirstByteOfRequest ==
    lorig # <<>> => lorig[1] = "m"

\* -------------------------------------------------------------------- C12

\* C12: under every interleaving of the commands with the daemon tasks, at
\* most one task is inside a cycle of the session loop, so no two loops use
\* the serial link at the same time.
C12_AtMostOneSessionLoop ==
    Cardinality({t \in Tasks : task[t].at = "cycle"}) <= 1

\* -------------------------------------------------------------------- C20

\* C20: the status flag is true only while a daemon task is alive: once every
\* task has ended, however it ended, thread_running is false.
C20_RunningOnlyWhileTaskAlive ==
    thread_running => \E t \in Tasks : Alive(t)

====
